---- MODULE Spec2Model ----
(***************************************************************************)
(* A model of the pushover client library (src/pushover/__init__.py):      *)
(* the Message and Glance payload builders, their json serialisation, and  *)
(* the Client that posts payloads and looks up receipts.                   *)
(*                                                                         *)
(* Python values are records [ty, v]: ty is the Python type name and v the *)
(* value.  A str is a sequence of one-character strings, so slicing and    *)
(* length are those of the sequence.  A float is modelled by its integral  *)
(* value (only integral floats are drawn).                                 *)
(***************************************************************************)
EXTENDS Integers, Sequences, FiniteSets, TLC

VARIABLES
    objs,     \* the Message/Glance instances constructed so far, in order
    client,   \* the Client instance (its attributes)
    call      \* the most recent call: its arguments, outcome, HTTP requests

vars == <<objs, client, call>>

-----------------------------------------------------------------------------
(* Bounds of the model *)

MaxObjs == 2
Over == 1

-----------------------------------------------------------------------------
(* Python values *)

None == [ty |-> "NoneType", v |-> 0]
PyStr(s) == [ty |-> "str", v |-> s]
PyInt(i) == [ty |-> "int", v |-> i]
PyFloat(x) == [ty |-> "float", v |-> x]

isinstance(val, t) == val.ty = t

Numeric == {"int", "float"}

\* a == b
PyEq(a, b) ==
    IF a.ty \in Numeric /\ b.ty \in Numeric THEN a.v = b.v
    ELSE a.ty = b.ty /\ a.v = b.v

\* a != b
PyNe(a, b) == ~PyEq(a, b)

\* a is b (None is a singleton; other values are never compared by identity)
PyIs(a, b) == a.ty = b.ty /\ a.ty = "NoneType"

Min(a, b) == IF a <= b THEN a ELSE b

\* A faulty slice: s[0:n+1]
Slice_Inclusive(s, n) == [i \in 1..Min(n + 1, Len(s)) |-> s[i]]

\* s[0:n]
Slice(s, n) == [i \in 1..Min(n, Len(s)) |-> s[i]]

RECURSIVE Digits(_)
Digits(n) ==
    IF n < 10 THEN <<<<"0","1","2","3","4","5","6","7","8","9">>[n + 1]>>
    ELSE Digits(n \div 10) \o Digits(n % 10)

\* str(val), for the types the model draws
str(val) ==
    CASE val.ty = "str" -> val.v
      [] val.ty = "NoneType" -> <<"N", "o", "n", "e">>
      [] val.ty = "int" -> IF val.v < 0 THEN <<"-">> \o Digits(0 - val.v) ELSE Digits(val.v)
      [] val.ty = "float" ->
           (IF val.v < 0 THEN <<"-">> \o Digits(0 - val.v) ELSE Digits(val.v)) \o <<".", "0">>

\* int(val) and float(val) on numbers
int(val) == PyInt(val.v)
float(val) == PyFloat(val.v)

-----------------------------------------------------------------------------
(* Constants of the module *)

ATTACHMENT_TYPES == {"image/jpeg", "image/png"}

MessageMax == 4096
TitleMax == 250
UrlMax == 512
UrlTitleMax == 100
GlanceMax == 100

\* mimetypes.guess_type(path)[0]: decided by the file name's extension alone;
\* "NoneType" stands for the None it returns for an unknown extension.
LastDot(s) ==
    LET dots == {i \in 1..Len(s) : s[i] = "."}
    IN  IF dots = {} THEN 0 ELSE CHOOSE i \in dots : \A j \in dots : j <= i

guess_type(path) ==
    LET d == LastDot(path)
        ext == IF d = 0 THEN <<>> ELSE SubSeq(path, d, Len(path))
    IN  CASE ext = <<".", "p", "n", "g">> -> "image/png"
          [] ext = <<".", "j", "p", "g">> -> "image/jpeg"
          [] ext = <<".", "t", "x", "t">> -> "text/plain"
          [] OTHER -> "NoneType"

-----------------------------------------------------------------------------
(* Message *)

NoObj == [cls |-> "NoObj"]

\* A faulty attachment check: the MIME type is not tested
AttachmentCheck_AnyType(attachment, files) ==
    IF PyEq(attachment, PyStr(<<>>)) THEN [exc |-> "", opened |-> 0]
    ELSE IF str(attachment) \notin files THEN [exc |-> "FileNotFoundError", opened |-> 0]
    ELSE [exc |-> "", opened |-> 1]

\* The attachment check of Message.__init__ (lines 99-106): the exception it
\* raises ("" when none) and the number of file objects open() created.
AttachmentCheck(attachment, files) ==
    IF PyEq(attachment, PyStr(<<>>)) THEN [exc |-> "", opened |-> 0]
    ELSE IF str(attachment) \notin files THEN [exc |-> "FileNotFoundError", opened |-> 0]
    ELSE IF guess_type(str(attachment)) \notin ATTACHMENT_TYPES
         THEN [exc |-> "ValueError", opened |-> 1]
    ELSE [exc |-> "", opened |-> 1]

\* Message.__init__(**a) run against the file system `files`.
Message_init(a, files) ==
    IF PyIs(a.message, None) THEN [exc |-> "ValueError", self |-> NoObj, opened |-> 0]
    ELSE LET chk == AttachmentCheck(a.attachment, files) IN
         IF chk.exc # "" THEN [exc |-> chk.exc, self |-> NoObj, opened |-> chk.opened]
         ELSE [exc |-> "", opened |-> chk.opened, self |->
                [cls |-> "Message",
                 mime_test |-> IF chk.opened = 1 THEN guess_type(str(a.attachment))
                               ELSE "unset",
                 message |-> PyStr(Slice(str(a.message), MessageMax)),
                 title |-> PyStr(Slice(str(a.title), TitleMax)),
                 attachment |-> PyStr(str(a.attachment)),
                 device |-> PyStr(str(a.device)),
                 url |-> PyStr(Slice(str(a.url), UrlMax)),
                 url_title |-> PyStr(Slice(str(a.url_title), UrlTitleMax)),
                 priority |-> int(a.priority),
                 sound |-> PyStr(str(a.sound)),
                 timestamp |-> float(a.timestamp),
                 retry |-> int(a.retry),
                 expire |-> int(a.expire),
                 response_data |-> None,
                 api_callback |-> "messages.json"]]

\* The dict comprehension {k: v for k, v in pairs if ...}, idx being the
\* positions of the pairs that pass the filter
DictOf(pairs, idx) ==
    LET keys == {pairs[i][1] : i \in idx}
    IN  [k \in keys |-> pairs[CHOOSE i \in idx : pairs[i][1] = k][2]]

MessageKeep(val) == PyNe(val, PyStr(<<>>))

\* Message.json
Message_json(self) ==
    LET pairs == << <<"message", self.message>>, <<"title", self.title>>,
                    <<"device", self.device>>, <<"url", self.url>>,
                    <<"url_title", self.url_title>>, <<"priority", self.priority>>,
                    <<"sound", self.sound>>, <<"timestamp", self.timestamp>>,
                    <<"retry", self.retry>>, <<"expire", self.expire>> >>
    IN  DictOf(pairs, {i \in 1..Len(pairs) : MessageKeep(pairs[i][2])})

-----------------------------------------------------------------------------
(* Glance *)

GlanceText(val) == IF isinstance(val, "str") THEN PyStr(Slice(val.v, GlanceMax)) ELSE PyStr(<<>>)

\* 0 <= percent <= 100 raises TypeError unless percent is a number
PercentCheck(percent) ==
    IF isinstance(percent, "int") THEN ""
    ELSE IF percent.ty \notin Numeric THEN "TypeError"
    ELSE IF ~(0 <= percent.v /\ percent.v <= 100) THEN "ValueError"
    ELSE ""

\* Glance.__init__(**a)
Glance_init(a) ==
    IF ~isinstance(a.count, "int") THEN [exc |-> "ValueError", self |-> NoObj]
    ELSE IF PercentCheck(a.percent) # "" THEN [exc |-> PercentCheck(a.percent), self |-> NoObj]
    ELSE [exc |-> "", self |->
            [cls |-> "Glance",
             title |-> GlanceText(a.title),
             text |-> GlanceText(a.text),
             subtext |-> GlanceText(a.subtext),
             count |-> a.count,
             percent |-> a.percent,
             api_callback |-> "glances.json",
             response_data |-> None]]

GlanceKeep(val) == ~PyIs(val, None) \/ PyNe(val, PyInt(0))

\* Glance.json
Glance_json(self) ==
    LET pairs == << <<"title", self.title>>, <<"text", self.text>>,
                    <<"subtext", self.subtext>>, <<"count", self.count>>,
                    <<"percent", self.percent>> >>
    IN  DictOf(pairs, {i \in 1..Len(pairs) : GlanceKeep(pairs[i][2])})

json(self) == IF self.cls = "Message" THEN Message_json(self) ELSE Glance_json(self)

-----------------------------------------------------------------------------------------------------------------------------------------------------
(* HTTP: the requests a call issues and the responses the server may give *)

\* requests.Response objects: body is the JSON object r.json() decodes.
RPlain == [ty |-> "Response", body |-> [status |-> 1]]
RReceipt == [ty |-> "Response", body |-> [status |-> 1, receipt |-> "rA"]]
RAck == [ty |-> "Response", body |-> [status |-> 1, acknowledged |-> 1]]

ConnectionError == [ty |-> "ConnectionError"]

\* What requests.post to messages.json / glances.json may do: answer without
\* or with a receipt id, or raise a transport error
PostOutcomes == {RPlain, RReceipt, ConnectionError}

\* What requests.get to receipts/<id>.json may do: answer with or without
\* the acknowledged field, or raise a transport error
GetOutcomes == {RAck, RPlain, ConnectionError}

\* requests.post(url, data=data, files=files); files is the set of uploaded
\* parts <<field, file name, mode of the open file, content type>>, empty for
\* a plain form POST
Post(url, data, files) ==
    [method |-> "POST", url |-> url, data |-> data, files |-> files, params |-> <<>>]

\* requests.get(url, params=params)
Get(url, params) ==
    [method |-> "GET", url |-> url, data |-> <<>>, files |-> {}, params |-> params]

\* r.json()[key]: the exception it raises, "" when it yields a value
JsonLookup(r, key) == IF key \notin DOMAIN r.body THEN "KeyError" ELSE ""

-----------------------------------------------------------------------------------------------------------------------------------------------------
(* Client *)

\* Client.__init__(user_key, api_token)
Client_init(user_key, api_token) ==
    [user_key |-> user_key,
     api_token |-> api_token,
     api_url |-> "https://api.pushover.net/1/",
     last_message |-> 0,
     api_receipts |-> <<"receipts/", ".json">>]

\* A faulty line 255: the payload's fields are not merged in
DictUpdate_Skipped(d, e) == d

\* d.update(e)
DictUpdate(d, e) ==
    [k \in DOMAIN d \cup DOMAIN e |-> IF k \in DOMAIN e THEN e[k] ELSE d[k]]

\* The form fields Client.send builds (lines 254-255)
SendData(c, msg) ==
    DictUpdate([token |-> PyStr(c.api_token), user |-> PyStr(c.user_key)], json(msg))

\* getattr(msg, "attachment", "") != "": a Glance has no such attribute
HasAttachment(msg) ==
    msg.cls = "Message" /\ PyNe(msg.attachment, PyStr(<<>>))

\* The value of the Message.attachment property, with the file opened "rb"
Message_attachment(self) ==
    {<<"attachment", self.attachment.v, "rb", self.mime_test>>}

\* The request Client.send issues (lines 256-260)
SendRequest(c, msg) ==
    IF HasAttachment(msg)
    THEN Post(c.api_url \o msg.api_callback, SendData(c, msg), Message_attachment(msg))
    ELSE Post(c.api_url \o msg.api_callback, SendData(c, msg), {})

\* msg.response_data = r (line 261)
StoreResponse(os, i, r) == [os EXCEPT ![i].response_data = r]

\* A faulty line 262: the slot is only filled while it is empty
StoreLast_Once(c, i) == IF c.last_message = 0 THEN [c EXCEPT !.last_message = i] ELSE c

\* self.last_message = msg (line 262)
StoreLast(c, i) == [c EXCEPT !.last_message = i]

\* A faulty send: the payload is recorded as last sent before the request
Raised_StoresLast(c, os, i) == [objs |-> os, client |-> [c EXCEPT !.last_message = i]]

\* What is left of the objects and the client when requests.post raises:
\* lines 261-262 are not reached.
Raised(c, os, i) == [objs |-> os, client |-> c]

\* A faulty line 277: the empty slot is not detected
NoLastMessage_Never(c) == FALSE

\* self.last_message is None (line 277)
NoLastMessage(c) == c.last_message = 0

\* "receipts/{}.json".format(receipt)
ReceiptPath(c, receipt) == c.api_receipts[1] \o receipt \o c.api_receipts[2]

\* The record of a call: op names it, arg is the payload (index in objs) it
\* was given or has constructed (0 for none), args the constructor's
\* arguments, files the files that exist during the call, receipt the receipt
\* id given ("None" for none), exc the exception raised ("" when the call
\* returned), result the value returned, requests the HTTP requests issued,
\* leaked the number of file objects the call opened that are still open when
\* it returns or raises, prev the payload's response_data before the call.
Call(op, arg, args, files, receipt, exc, result, requests, leaked, prev) ==
    [op |-> op, arg |-> arg, args |-> args, files |-> files, receipt |-> receipt,
     exc |-> exc, result |-> result, requests |-> requests, leaked |-> leaked,
     prev |-> prev]

NoCall == Call("none", 0, <<>>, {}, "None", "", None, <<>>, 0, None)

\* Client.send(os[i]) on client c while the files `files` exist and the HTTP
\* layer does `out`: the new objects and client, the exception raised, the
\* value returned, the requests issued and the file objects opened.
Client_send(c, os, i, files, out) ==
    LET msg == os[i]
        opened == IF HasAttachment(msg) THEN 2 ELSE 0
    IN  IF HasAttachment(msg) /\ msg.attachment.v \notin files
        THEN [objs |-> os, client |-> c, exc |-> "FileNotFoundError", result |-> None,
              requests |-> <<>>, opened |-> 0]
        ELSE IF out = ConnectionError
        THEN [objs |-> Raised(c, os, i).objs, client |-> Raised(c, os, i).client,
              exc |-> "ConnectionError", result |-> None,
              requests |-> <<SendRequest(c, msg)>>, opened |-> opened]
        ELSE [objs |-> StoreResponse(os, i, out), client |-> StoreLast(c, i),
              exc |-> "", result |-> out,
              requests |-> <<SendRequest(c, msg)>>, opened |-> opened]

\* Client.get_receipt(receipt) when the HTTP layer does `out`; receipt is
\* "None" when no id is given.  The exception raised, the value returned and
\* the requests issued.
Client_get_receipt(c, os, receipt, out) ==
    LET last == c.last_message
        look == IF last = 0 THEN "" ELSE JsonLookup(os[last].response_data, "receipt")
        id == IF receipt # "None" THEN receipt
              ELSE IF last # 0 /\ look = "" THEN os[last].response_data.body.receipt
              ELSE "None"
        req == Get(c.api_url \o ReceiptPath(c, id), [token |-> c.api_token])
    IN  IF receipt = "None" /\ NoLastMessage(c)
        THEN [exc |-> "ValueError", result |-> None, requests |-> <<>>]
        ELSE IF receipt = "None" /\ look # ""
        THEN [exc |-> look, result |-> None, requests |-> <<>>]
        ELSE IF out = ConnectionError
        THEN [exc |-> "ConnectionError", result |-> None, requests |-> <<req>>]
        ELSE IF JsonLookup(out, "acknowledged") # ""
        THEN [exc |-> JsonLookup(out, "acknowledged"), result |-> None, requests |-> <<req>>]
        ELSE [exc |-> "", result |-> out, requests |-> <<req>>]

-----------------------------------------------------------------------------------------------------------------------------------------------------
(* Inputs *)

S_test == <<"t", "e", "s", "t">>
S_Hi == <<"H", "i">>
S_pushover == <<"p", "u", "s", "h", "o", "v", "e", "r">>
F_png == <<"a", ".", "p", "n", "g">>
F_txt == <<"b", ".", "t", "x", "t">>
F_jpg == <<"c", ".", "j", "p", "g">>

\* The defaults of Message.__init__'s keyword arguments (lines 50-52);
\* the default timestamp is the time the module was imported.
MessageDefaults ==
    [message |-> PyStr(S_test), title |-> PyStr(<<>>), attachment |-> PyStr(<<>>),
     device |-> PyStr(<<>>), url |-> PyStr(<<>>), url_title |-> PyStr(<<>>),
     priority |-> PyInt(0), sound |-> PyStr(S_pushover),
     timestamp |-> PyFloat(1700000000), retry |-> PyInt(30), expire |-> PyInt(10800)]

\* The defaults of Glance.__init__'s keyword arguments (line 141)
GlanceDefaults ==
    [title |-> None, text |-> None, subtext |-> None, count |-> PyInt(0),
     percent |-> PyInt(0)]

\* The payloads the client is given: Message("test", title="Hi"),
\* Message("test", attachment="a.png", priority=2, timestamp=0) and Glance()
MessageArgs ==
    {[MessageDefaults EXCEPT !.title = PyStr(S_Hi)],
     [MessageDefaults EXCEPT !.attachment = PyStr(F_png), !.priority = PyInt(2),
                             !.timestamp = PyFloat(0)]}

GlanceArgs == {GlanceDefaults}

\* The file system during a call of the client: whether a.png exists
Files == SUBSET {F_png}

ReceiptArgs == {"None", "rB"}

\* The arguments the constructors are checked on
BuildFiles == SUBSET {F_png, F_txt}

BuildMessageArgs ==
    {[MessageDefaults EXCEPT !.message = m, !.title = t, !.attachment = f, !.priority = p,
                             !.timestamp = ts] :
        m \in {None, PyStr(S_test)}, t \in {PyStr(<<>>), PyStr(S_Hi)},
        f \in {PyStr(<<>>), PyStr(F_png), PyStr(F_txt), PyStr(F_jpg)},
        p \in {PyInt(0), PyInt(2)}, ts \in {PyFloat(0), PyFloat(1700000000)}}

BuildGlanceArgs ==
    [title : {None, PyStr(S_Hi)},
     text : {None},
     subtext : {None, PyStr(S_test)},
     count : {PyInt(0), PyInt(0 - 3), PyStr(S_Hi)},
     percent : {PyInt(0), PyInt(50), PyInt(100), PyInt(101), PyInt(150), PyInt(0 - 1),
                PyFloat(50), PyFloat(150), None, PyStr(S_Hi)}]

\* A str of n characters; k shifts its pattern
Text(n, k) == [i \in 1..n |-> <<"a", "b", "c">>[((i + k) % 3) + 1]]

\* The lengths around a limit
Around(limit) == (limit - 1)..(limit + Over)

\* Message(...) called with strings at and beyond the length limits
LongArgs ==
    {[MessageDefaults EXCEPT !.message = PyStr(Text(m, k)), !.title = PyStr(Text(t, 1)),
                             !.url = PyStr(Text(u, 2)), !.url_title = PyStr(Text(v, 0))] :
        m \in Around(MessageMax), t \in Around(TitleMax), u \in Around(UrlMax),
        v \in Around(UrlTitleMax), k \in 0..1}

-----------------------------------------------------------------------------
(* The state machine of a client and its payloads *)

Init ==
    /\ objs = <<>>
    /\ client = Client_init("u-key", "a-token")
    /\ call = NoCall

\* m = Message(**a) while the files `files` exist.  The file object line 101
\* opens is dropped at once; whether it is still open when the constructor
\* returns is up to the interpreter (leaked).
Construct(a, files) ==
    LET r == Message_init(a, files) IN
    \E leaked \in 0..r.opened :
        /\ Len(objs) < MaxObjs
        /\ objs' = IF r.exc = "" THEN Append(objs, r.self) ELSE objs
        /\ call' = Call("Message", IF r.exc = "" THEN Len(objs) + 1 ELSE 0, a, files,
                        "None", r.exc, None, <<>>, leaked, None)
        /\ UNCHANGED client

\* g = Glance(**a)
ConstructGlance(a) ==
    LET r == Glance_init(a) IN
    /\ Len(objs) < MaxObjs
    /\ objs' = IF r.exc = "" THEN Append(objs, r.self) ELSE objs
    /\ call' = Call("Glance", IF r.exc = "" THEN Len(objs) + 1 ELSE 0, a, {}, "None",
                    r.exc, None, <<>>, 0, None)
    /\ UNCHANGED client

NewMessage == \E a \in MessageArgs, files \in Files : Construct(a, files)

NewGlance == \E a \in GlanceArgs : ConstructGlance(a)

\* client.send(objs[i]).  The code closes none of the file objects it opens,
\* so how many are still open when send returns or raises is up to the
\* interpreter (leaked).
Send ==
    \E i \in 1..Len(objs), files \in Files, out \in PostOutcomes :
        LET r == Client_send(client, objs, i, files, out) IN
        \E leaked \in 0..r.opened :
            /\ objs' = r.objs
            /\ client' = r.client
            /\ call' = Call("send", i, <<>>, files, "None", r.exc, r.result, r.requests,
                            leaked, objs[i].response_data)

\* client.get_receipt(receipt)
GetReceipt ==
    \E receipt \in ReceiptArgs, out \in GetOutcomes :
        LET r == Client_get_receipt(client, objs, receipt, out) IN
        /\ call' = Call("get_receipt", 0, <<>>, {}, receipt, r.exc, r.result, r.requests, 0,
                        None)
        /\ UNCHANGED <<objs, client>>

Next == NewMessage \/ NewGlance \/ Send \/ GetReceipt

Spec == Init /\ [][Next]_vars

-----------------------------------------------------------------------------
(* The constructors applied once to each of the arguments they are checked on *)

Pending(op, a, files) == Call(op, 0, a, files, "None", "", None, <<>>, 0, None)

InitBuild ==
    /\ objs = <<>>
    /\ client = Client_init("u-key", "a-token")
    /\ call \in {Pending("Message?", a, files) : a \in BuildMessageArgs, files \in BuildFiles}
            \cup {Pending("Message?", a, {}) : a \in LongArgs}
            \cup {Pending("Glance?", a, {}) : a \in BuildGlanceArgs}

BuildMessage == call.op = "Message?" /\ Construct(call.args, call.files)

BuildGlance == call.op = "Glance?" /\ ConstructGlance(call.args)

NextBuild == BuildMessage \/ BuildGlance

SpecBuild == InitBuild /\ [][NextBuild]_vars

-----------------------------------------------------------------------------
(* Properties *)

ApiUrl == "https://api.pushover.net/1/"

\* The endpoint of a payload
Endpoint(msg) ==
    IF msg.cls = "Message" THEN ApiUrl \o "messages.json" ELSE ApiUrl \o "glances.json"

\* The payload carries a non-empty attachment
Attached(msg) == msg.cls = "Message" /\ msg.attachment.v # <<>>

\* The call's requests are one POST to the payload's endpoint whose form
\* fields hold the credentials and every pair of the payload's serialised
\* mapping, multipart with the file exactly when the payload is attached
OnePost ==
    /\ Len(call.requests) = 1
    /\ LET q == call.requests[1]
           msg == objs[call.arg]
           j == json(msg)
       IN  /\ q.method = "POST"
           /\ q.url = Endpoint(msg)
           /\ DOMAIN q.data = DOMAIN j \cup {"user", "token"}
           /\ q.data["user"] = PyStr(client.user_key)
           /\ q.data["token"] = PyStr(client.api_token)
           /\ \A k \in DOMAIN j : q.data[k] = j[k]
           /\ (q.files # {}) = Attached(msg)
           /\ Attached(msg) =>
                \E part \in q.files : part[1] = "attachment" /\ part[2] = msg.attachment.v

\* C1 as stated: every call of send issues exactly one POST, to the payload's
\* endpoint, with user, token and every serialised field of the payload,
\* multipart if and only if the payload has a non-empty attachment.
C1_EverySendPostsOnce == call.op = "send" => OnePost

\* C1 amended: a call of send issues exactly that one POST unless the
\* payload's attachment file no longer exists when send is called; then send
\* raises FileNotFoundError and issues no request.
C1_SendPostsOnceUnlessFileGone ==
    call.op = "send" =>
        IF Attached(objs[call.arg]) /\ objs[call.arg].attachment.v \notin call.files
        THEN call.exc = "FileNotFoundError" /\ call.requests = <<>>
        ELSE call.exc \in {"", "ConnectionError"} /\ OnePost

\* A send of an attached Message has returned after its multipart POST
C1_Witness ==
    /\ call.op = "send"
    /\ call.exc = ""
    /\ Attached(objs[call.arg])
    /\ Len(call.requests) = 1
    /\ call.requests[1].files # {}
    /\ "title" \notin DOMAIN call.requests[1].data

\* C2: after a send that returned, last_message is the payload it was given
\* and that payload's response_data is the response send returned, whatever
\* either held before.
C2_LastMessageIsMostRecent ==
    (call.op = "send" /\ call.exc = "") =>
        /\ client.last_message = call.arg
        /\ objs[call.arg].response_data = call.result
        /\ call.result.ty = "Response"

\* A payload sent before is sent again after another payload was sent, and a
\* different response replaces the one it held
C2_Witness ==
    /\ call.op = "send"
    /\ call.exc = ""
    /\ call.prev.ty = "Response"
    /\ call.prev.body # call.result.body
    /\ \E j \in 1..Len(objs) : j # call.arg /\ objs[j].response_data.ty = "Response"

\* C3: get_receipt without an id on a client whose last_message is empty
\* raises ValueError and issues no request; with an id it issues one GET for
\* that id, whatever last_message is.
C3_ReceiptNeedsLastMessage ==
    call.op = "get_receipt" =>
        /\ (call.receipt = "None" /\ client.last_message = 0) =>
                (call.exc = "ValueError" /\ call.requests = <<>>)
        /\ call.receipt # "None" =>
                /\ Len(call.requests) = 1
                /\ call.requests[1].method = "GET"
                /\ call.requests[1].url = ApiUrl \o "receipts/" \o call.receipt \o ".json"
                /\ call.exc # "ValueError"

\* get_receipt() has failed on a client that has payloads but has sent none
C3_Witness ==
    /\ call.op = "get_receipt"
    /\ call.receipt = "None"
    /\ client.last_message = 0
    /\ call.exc = "ValueError"
    /\ Len(objs) > 0

\* C4 as stated: get_receipt without an id, when the last sent payload's
\* response holds no receipt id, raises the same ValueError as when nothing
\* was sent and issues no request.
C4_NoReceiptIdIsInvalidState ==
    (/\ call.op = "get_receipt"
     /\ call.receipt = "None"
     /\ client.last_message # 0
     /\ "receipt" \notin DOMAIN objs[client.last_message].response_data.body)
    => (call.exc = "ValueError" /\ call.requests = <<>>)

\* C5 as stated: when send returns or raises, no file object it opened on the
\* attachment is still open.
C5_SendClosesAttachment == call.op = "send" => call.leaked = 0

\* The attachment argument of the constructor call is acceptable: it is empty,
\* or names an existing file whose MIME type is image/jpeg or image/png
GoodAttachment(a, files) ==
    \/ a.attachment.v = <<>>
    \/ /\ a.attachment.v \in files
       /\ guess_type(a.attachment.v) \in {"image/jpeg", "image/png"}

\* C6: Message(...) with a non-empty attachment that names no existing file,
\* or a file of another MIME type than image/jpeg and image/png, raises
\* (ValueError or FileNotFoundError) and yields no instance; every Message
\* with a non-empty attachment names a file that existed when it was
\* constructed and has an accepted MIME type.
C6_AttachmentValidated ==
    call.op = "Message" =>
        /\ ~GoodAttachment(call.args, call.files) =>
                /\ call.exc \in {"ValueError", "FileNotFoundError"}
                /\ call.arg = 0
                /\ objs = <<>>
        /\ \A i \in 1..Len(objs) :
                /\ objs[i].cls = "Message"
                /\ GoodAttachment(call.args, call.files)
                /\ objs[i].attachment = call.args.attachment

\* Message("test", attachment="b.txt") was rejected although b.txt exists
C6_Witness ==
    /\ call.op = "Message"
    /\ call.args.message.ty = "str"
    /\ call.args.attachment.v = F_txt
    /\ F_txt \in call.files
    /\ call.exc = "ValueError"
    /\ objs = <<>>

ValidPercent(p) == p.ty = "int" /\ 0 <= p.v /\ p.v <= 100

\* C7 as stated: Glance(...) fails and yields no instance whenever percent is
\* not an integer in 0..100, so every Glance has such a percent.  (The claim
\* names ValueError; any exception is counted here as the failure it asks for.)
C7_PercentValidated ==
    call.op = "Glance" =>
        /\ ~ValidPercent(call.args.percent) => (call.exc # "" /\ objs = <<>>)
        /\ \A i \in 1..Len(objs) : ValidPercent(objs[i].percent)

\* out is inp cut to its first n characters
CutTo(out, inp, n) ==
    IF Len(inp) > n
    THEN Len(out) = n /\ \A i \in 1..n : out[i] = inp[i]
    ELSE out = inp

\* C8: Message(...) stores message, title, url and url_title cut to their
\* first 4096, 250, 512 and 100 characters, unchanged when not longer, and
\* does not reject a string for its length.
C8_FieldsTruncated ==
    (call.op = "Message" /\ call.args.message.ty = "str") =>
        /\ call.exc = "" <=> GoodAttachment(call.args, call.files)
        /\ \A i \in 1..Len(objs) :
                /\ CutTo(objs[i].message.v, call.args.message.v, 4096)
                /\ CutTo(objs[i].title.v, call.args.title.v, 250)
                /\ CutTo(objs[i].url.v, call.args.url.v, 512)
                /\ CutTo(objs[i].url_title.v, call.args.url_title.v, 100)
                /\ Len(objs[i].message.v) <= 4096
                /\ Len(objs[i].title.v) <= 250
                /\ Len(objs[i].url.v) <= 512
                /\ Len(objs[i].url_title.v) <= 100

\* A Message was constructed from four strings that are each too long
C8_Witness ==
    /\ call.op = "Message"
    /\ Len(objs) = 1
    /\ Len(call.args.message.v) > 4096
    /\ Len(call.args.title.v) > 250
    /\ Len(call.args.url.v) > 512
    /\ Len(call.args.url_title.v) > 100
    /\ Len(objs[1].message.v) = 4096

\* The fields a payload serialises
JsonFields(o) ==
    IF o.cls = "Message"
    THEN {"message", "title", "device", "url", "url_title", "priority", "sound",
          "timestamp", "retry", "expire"}
    ELSE {"title", "text", "subtext", "count", "percent"}

\* bool(val)
Truthy(val) ==
    CASE val.ty = "str" -> val.v # <<>>
      [] val.ty \in Numeric -> val.v # 0
      [] OTHER -> FALSE

\* The value is empty: None or the empty str
Empty(val) == val.ty = "NoneType" \/ (val.ty = "str" /\ val.v = <<>>)

\* C9 as stated: the json mapping of a Message or Glance omits every field
\* whose value is empty and holds every field whose value is not falsy, so a
\* payload whose optional texts are all empty has no empty-valued key.  (The
\* claim also has a field that is 0 omitted; a 0 is counted here as correct
\* either way.)
C9_JsonOmitsEmpty ==
    \A i \in 1..Len(objs) :
        LET o == objs[i]
            j == json(o)
        IN  \A k \in JsonFields(o) :
                /\ Empty(o[k]) => k \notin DOMAIN j
                /\ Truthy(o[k]) => (k \in DOMAIN j /\ j[k] = o[k])

\* C9's other case: a Message whose priority or timestamp is 0 serialises
\* without that key.
C9_ZeroOmitted ==
    \A i \in 1..Len(objs) :
        objs[i].cls = "Message" =>
            \A k \in {"priority", "timestamp"} :
                objs[i][k].v = 0 => k \notin DOMAIN json(objs[i])

\* The receipt id a GET asks for sits in its url
ReceiptUrl(id) == ApiUrl \o "receipts/" \o id \o ".json"

\* C10: a send whose POST fails with a transport error leaves the client (its
\* last_message and credentials) and every payload (its response_data) as
\* they were; a get_receipt() that follows asks for the receipt of the payload
\* last_message held before the failed send.
C10_FailedSendChangesNothing ==
    [][/\ (call'.op = "send" /\ call'.exc = "ConnectionError") =>
                (client' = client /\ objs' = objs)
       /\ (/\ call.op = "send"
           /\ call.exc = "ConnectionError"
           /\ call'.op = "get_receipt"
           /\ call'.receipt = "None"
           /\ call'.requests # <<>>) =>
                /\ call.arg # client.last_message =>
                        objs[call.arg].response_data = call.prev
                /\ call'.requests[1].url =
                        ReceiptUrl(objs'[client'.last_message].response_data.body.receipt)
                /\ client'.last_message = client.last_message]_vars

\* The send of a payload that was sent before has failed after another
\* payload was sent
C10_Witness ==
    /\ call.op = "send"
    /\ call.exc = "ConnectionError"
    /\ client.last_message # 0
    /\ client.last_message # call.arg
    /\ call.prev.ty = "Response"
    /\ "receipt" \in DOMAIN objs[client.last_message].response_data.body

====
